---- MODULE Spec2Model ----
(***************************************************************************)
(* The LINE bot of deployment/Peter/app/main.py as a state machine: the    *)
(* per-user conversation state (users.state, users.preferred_lang), the    *)
(* webhook deliveries that are handled as concurrent background tasks,     *)
(* each with a database session of its own, and the nearby-store discovery *)
(* a location message triggers.                                            *)
(*                                                                         *)
(* A task moves from one suspension point (await) of its handler to the    *)
(* next; what lies between two awaits is one atomic step.                  *)
(***************************************************************************)
EXTENDS Integers, Sequences, FiniteSets, TLC

\* ------------------------------------------------------------------ bounds
MaxEvents == 2      \* events in one webhook delivery
MaxNearby == 2      \* places one nearby search returns
MaxPlaces == 12     \* places the nearby search of a discovery request returns

\* ------------------------------------------------------------ value spaces
Users  == {"u1", "u2"}                 \* LINE user ids
Tasks  == {"t1", "t2"}                 \* background tasks (one per delivery)
Langs  == {"en", "ja"}                 \* languages.line_lang_code
Places == {"p1", "p2", "p3"}           \* Google place ids
Coords == {"c1", "c2"}                 \* coordinates a user can share

UserStates == {"normal", "awaiting_location", "awaiting_language"}

\* A row of table users (models.User: state, preferred_lang); NoUser: no row.
NoUser == [state |-> "absent", lang |-> "absent"]
\* post[t] before the handler has committed anything.
NoRow  == [state |-> "unset", lang |-> "unset"]
UserRows == [state : UserStates, lang : Langs]

\* Raw texts a user can type (or the speech service can transcribe).
Texts == {"order now", " Order Now ", "change language", "order history",
          "0", "english", "Japanese", "hello", ""}

\* text.strip().lower() on the texts above.
Normalize(text) ==
    CASE text = " Order Now " -> "order now"
      [] text = "Japanese"    -> "japanese"
      [] OTHER                -> text

\* language_lookup_dict: lower-cased language name -> lang_code.
NoLang == "none"
language_lookup_dict(user_text) ==
    CASE user_text = "english"  -> "en"
      [] user_text = "japanese" -> "ja"
      [] OTHER                  -> NoLang

\* Postback data a button (or a forged request) can carry.
PostbackData == {"action=change_language", "action=order_now",
                 "action=order_history",
                 "action=show_order_details&order_id=1",
                 "action=show_order_details&order_id=abc",
                 "action=show_order_details",
                 "action=bogus"}

\* parse_qs(postback_data).get('order_id', [None])[0]
NoOrderId == "none"
OrderIdOf(data) ==
    CASE data = "action=show_order_details&order_id=1"   -> "1"
      [] data = "action=show_order_details&order_id=abc" -> "abc"
      [] OTHER                                           -> NoOrderId

StartsWithShowOrderDetails(data) ==
    data \in {"action=show_order_details&order_id=1",
              "action=show_order_details&order_id=abc",
              "action=show_order_details"}

\* int(order_id) succeeds
IsInteger(order_id) == order_id = "1"

EventTypes == {"follow", "text", "audio", "sticker", "location", "postback"}

Event(type, user, text, coord, hint) ==
    [type |-> type, user |-> user, text |-> text, coord |-> coord, hint |-> hint]

NoEvent == Event("none", "none", "", "none", FALSE)

\* What get_profile answers for a follow event: an exception, a profile
\* without language, or a profile with a language.
Profiles == {"<error>", "<none>"} \cup Langs

\* Mutant: the language of the profile is taken as it is.
UserLanguage_NoFallback(profile) ==
    IF profile = "<error>" THEN "en" ELSE profile

\* user_language of handle_follow: 'en' unless the profile has a language.
UserLanguage(profile) ==
    IF profile \in {"<error>", "<none>"} THEN "en" ELSE profile

\* The text of a follow event is the answer of get_profile for it.
Events ==
    {Event("follow", u, pf, "none", FALSE) : u \in Users, pf \in Profiles}
    \cup {Event("text", u, x, "none", FALSE) : u \in Users, x \in Texts}
    \cup {Event("audio", u, "", "none", FALSE) : u \in Users}
    \cup {Event("sticker", u, "", "none", FALSE) : u \in Users}
    \cup {Event("location", u, "", c, h) : u \in Users, c \in Coords, h \in BOOLEAN}
    \cup {Event("postback", u, d, "none", FALSE) : u \in Users, d \in PostbackData}

\* ------------------------------------------------------------------- state
VARIABLES
    users,       \* table users: user id -> row or NoUser
    stores,      \* table stores: place id -> partner_level, or NoStore
    details,     \* table stores: place id -> store_name and main_photo_url
    listLoaded,  \* LANGUAGE_LIST_STRING is non-empty
    pc,          \* task -> position of the task
    left,        \* task -> events of the delivery not yet dispatched
    ev,          \* task -> the event being handled
    arg,         \* task -> text handed to process_language_text, or NoArg
    sess,        \* task -> identity map of its session: user id -> object
    dirty,       \* task -> attributes of the user object changed, not flushed
    seen,        \* task -> the user object as the handler read it
    post,        \* task -> the user's row right after the handler's commit
    reply,       \* task -> messages of the handler's reply
    cards,       \* task -> place ids of the carousel of the reply
    disc,        \* task -> coordinates the handler ran the searches for
    before,      \* task -> the tasks whose delivery was received earlier
                 \*         and that have not ended
    req          \* discovery request -> its position and local variables
                 \*         (find_and_sync_nearby_stores)

vars == <<users, stores, details, listLoaded, pc, left, ev, arg, sess, dirty, seen,
          post, reply, cards, disc, before, req>>

\* The variables of the webhook tasks.
botvars == <<users, listLoaded, pc, left, ev, arg, sess, dirty, seen, post,
             reply, cards, disc, before>>

NoStore == -1
NoArg == "<none>"
NoReply == <<>>

\* --------------------------------------------------------- reply messages
\* get_main_menu_messages: the text message and the button card.
get_main_menu_messages == <<"welcome_text_message", "button_card_prompt">>

\* `if LANGUAGE_LIST_STRING: messages_to_reply.append(...)`
LanguageList(loaded) == IF loaded THEN <<"LANGUAGE_LIST_STRING">> ELSE <<>>

Outcome(state, lang, out, commit) ==
    [state |-> state, lang |-> lang, reply |-> out, commit |-> commit]

\* ------------------------------------------------ process_language_text
\* Mutant: the cancel branch puts the language back to 'en'.
CancelBranch_ResetsLanguage(user) ==
    Outcome("normal", "en",
            <<"operation_cancelled">> \o get_main_menu_messages, TRUE)

\* Mutant: the cancel branch forgets `user.state = 'normal'`.
CancelBranch_KeepsState(user) ==
    Outcome(user.state, user.lang,
            <<"operation_cancelled">> \o get_main_menu_messages, TRUE)

\* The cancel branch: '0' in one of the two awaiting states.
CancelBranch(user) ==
    Outcome("normal", user.lang,
            <<"operation_cancelled">> \o get_main_menu_messages, TRUE)

\* Mutant: the awaiting_location branch answers with the main menu.
AwaitingLocationBranch_Menu(user) ==
    Outcome(user.state, user.lang, get_main_menu_messages, FALSE)

\* State 'awaiting_location': whatever the text, ask for the location again.
AwaitingLocationBranch(user) ==
    Outcome(user.state, user.lang, <<"reprompt_location">>, FALSE)

\* Mutant: an unrecognized language ends the dialogue (state 'normal').
AwaitingLanguageBranch_GivesUp(user, user_text, loaded) ==
    LET lang_code == language_lookup_dict(user_text) IN
    IF lang_code # NoLang
    THEN Outcome("normal", lang_code, <<"language_set_success">>, TRUE)
    ELSE Outcome("normal", user.lang,
                 <<"language_not_recognized">> \o LanguageList(loaded), TRUE)

\* State 'awaiting_language': look the text up in language_lookup_dict.
AwaitingLanguageBranch(user, user_text, loaded) ==
    LET lang_code == language_lookup_dict(user_text) IN
    IF lang_code # NoLang
    THEN Outcome("normal", lang_code, <<"language_set_success">>, TRUE)
    ELSE Outcome(user.state, user.lang,
                 <<"language_not_recognized">> \o LanguageList(loaded), FALSE)

\* handle_order_history: the carousel of the latest orders, or a text.
handle_order_history(hasOrders) ==
    IF hasOrders THEN <<"order_history_carousel">> ELSE <<"no_order_history">>

\* Mutant: 'order now' sets the state of 'change language'.
NormalBranch_OrderNowWrongState(user, user_text, loaded, hasOrders) ==
    CASE user_text = "order now" ->
            Outcome("awaiting_language", user.lang, <<"ask_location">>, TRUE)
      [] user_text = "change language" ->
            Outcome("awaiting_language", user.lang,
                    <<"ask_language">> \o LanguageList(loaded), TRUE)
      [] user_text = "order history" ->
            Outcome(user.state, user.lang, handle_order_history(hasOrders), FALSE)
      [] OTHER ->
            Outcome(user.state, user.lang, get_main_menu_messages, FALSE)

\* Mutant: 'change language' forgets db.commit().
NormalBranch_ChangeLanguageNoCommit(user, user_text, loaded, hasOrders) ==
    CASE user_text = "order now" ->
            Outcome("awaiting_location", user.lang, <<"ask_location">>, TRUE)
      [] user_text = "change language" ->
            Outcome("awaiting_language", user.lang,
                    <<"ask_language">> \o LanguageList(loaded), FALSE)
      [] user_text = "order history" ->
            Outcome(user.state, user.lang, handle_order_history(hasOrders), FALSE)
      [] OTHER ->
            Outcome(user.state, user.lang, get_main_menu_messages, FALSE)

\* Mutant: a text that is no command is taken for 'order now'.
NormalBranch_DefaultOrders(user, user_text, loaded, hasOrders) ==
    CASE user_text = "change language" ->
            Outcome("awaiting_language", user.lang,
                    <<"ask_language">> \o LanguageList(loaded), TRUE)
      [] user_text = "order history" ->
            Outcome(user.state, user.lang, handle_order_history(hasOrders), FALSE)
      [] OTHER ->
            Outcome("awaiting_location", user.lang, <<"ask_location">>, TRUE)

\* The else branch (state 'normal'): the three commands, or the main menu.
NormalBranch(user, user_text, loaded, hasOrders) ==
    CASE user_text = "order now" ->
            Outcome("awaiting_location", user.lang, <<"ask_location">>, TRUE)
      [] user_text = "change language" ->
            Outcome("awaiting_language", user.lang,
                    <<"ask_language">> \o LanguageList(loaded), TRUE)
      [] user_text = "order history" ->
            Outcome(user.state, user.lang, handle_order_history(hasOrders), FALSE)
      [] OTHER ->
            Outcome(user.state, user.lang, get_main_menu_messages, FALSE)

\* Mutant: '0' cancels in whatever state the user is.
process_language_text_CancelAnywhere(user, text, loaded, hasOrders) ==
    LET user_text == Normalize(text) IN
    IF user = NoUser
    THEN Outcome(user.state, user.lang, <<"user_not_found">>, FALSE)
    ELSE IF user_text = "0"
    THEN CancelBranch(user)
    ELSE IF user.state = "awaiting_location"
    THEN AwaitingLocationBranch(user)
    ELSE IF user.state = "awaiting_language"
    THEN AwaitingLanguageBranch(user, user_text, loaded)
    ELSE NormalBranch(user, user_text, loaded, hasOrders)

\* process_language_text: the user that was read, the text, and what the
\* function answers and leaves of the user.
process_language_text(user, text, loaded, hasOrders) ==
    LET user_text == Normalize(text) IN
    IF user = NoUser
    THEN Outcome(user.state, user.lang, <<"user_not_found">>, FALSE)
    ELSE IF user_text = "0"
            /\ user.state \in {"awaiting_location", "awaiting_language"}
    THEN CancelBranch(user)
    ELSE IF user.state = "awaiting_location"
    THEN AwaitingLocationBranch(user)
    ELSE IF user.state = "awaiting_language"
    THEN AwaitingLanguageBranch(user, user_text, loaded)
    ELSE NormalBranch(user, user_text, loaded, hasOrders)

\* ------------------------------------------------------------ the session
\* `select(User).filter_by(line_user_id=...)` through the session of task t:
\* an object the session already holds is returned as it is (the identity
\* map; expire_on_commit=False keeps it loaded), otherwise the row is read.
ReadUser(t, u) ==
    IF sess[t][u] # NoUser THEN sess[t][u] ELSE users[u]

\* The attributes an assignment leaves changed (the unit of work writes
\* only those).
Dirty(old, new) ==
    {a \in {"state", "lang"} :
        \/ a = "state" /\ old.state # new.state
        \/ a = "lang"  /\ old.lang # new.lang}

\* Mutant: the commit writes the state and loses the language.
Flush_StateOnly(row, obj, changed) ==
    [state |-> IF "state" \in changed THEN obj.state ELSE row.state,
     lang  |-> row.lang]

\* db.commit(): UPDATE users SET <changed attributes> WHERE user_id = ...
Flush(row, obj, changed) ==
    [state |-> IF "state" \in changed THEN obj.state ELSE row.state,
     lang  |-> IF "lang"  \in changed THEN obj.lang  ELSE row.lang]

\* -------------------------------------------------------------- discovery
RECURSIVE SeqsOver(_, _)
\* Sequences without repetition over S, of length at most n.
SeqsOver(S, n) ==
    IF n = 0 THEN {<<>>}
    ELSE LET shorter == SeqsOver(S, n - 1) IN
         shorter \cup {Append(s, x) : s \in {q \in shorter : Len(q) = n - 1},
                                      x \in S}

NoDup(s) == \A i, j \in 1..Len(s) : i # j => s[i] # s[j]

\* What the nearby search can answer: a failure, or a list of places.
NearbyResults ==
    {[ok |-> FALSE, places |-> <<>>]}
    \cup {[ok |-> TRUE, places |-> s] : s \in {q \in SeqsOver(Places, MaxNearby) : NoDup(q)}}

\* What the text search can answer: a failure, no place, or one place whose
\* types hold "restaurant" or not.
NoPlace == "none"
TextResults ==
    {[ok |-> FALSE, place |-> NoPlace, restaurant |-> FALSE],
     [ok |-> TRUE,  place |-> NoPlace, restaurant |-> FALSE]}
    \cup {[ok |-> TRUE, place |-> p, restaurant |-> r] : p \in Places, r \in BOOLEAN}

NoTextSearch == [ok |-> FALSE, place |-> NoPlace, restaurant |-> FALSE]

Remove(s, p) == SelectSeq(s, LAMBDA x : x # p)

\* final_places after the two searches.
FinalPlaces(nearby, hint, text) ==
    LET found == IF nearby.ok THEN nearby.places ELSE <<>> IN
    IF hint /\ text.ok /\ text.place # NoPlace /\ text.restaurant
    THEN <<text.place>> \o Remove(found, text.place)
    ELSE found

MaxCards == 10

\* final_places[:10]
FirstCards(s) == IF Len(s) <= MaxCards THEN s ELSE SubSeq(s, 1, MaxCards)

Range(s) == {s[i] : i \in 1..Len(s)}

\* The loop over final_places[:10]: a place without a store gets one,
\* with partner_level 0; a store that exists is left as it is.
SyncStores(table, shown) ==
    [p \in Places |->
        IF p \in Range(shown) /\ table[p] = NoStore THEN 0 ELSE table[p]]

\* store_name and main_photo_url of a place without a store, and of a store
\* that was there before the bot saw the place.
NoDetails == [store_name |-> "<none>", main_photo_url |-> "<none>"]
CuratedDetails == [store_name |-> "curated", main_photo_url |-> "curated.png"]

\* The places whose candidate data has photos.
PhotoPlaces == {"p1", "p3"}

\* The image of a store without a photo.
PlaceholderUrl == "https://via.placeholder.com/1024x1024.png?text=No+Image"

\* new_store_name and new_photo_url of handle_location_message: the
\* placeholder image, or the media URL of the first photo.
NewStoreDetails(photos) ==
    [store_name |-> "displayName",
     main_photo_url |-> IF photos THEN "places.googleapis.com/media"
                                  ELSE PlaceholderUrl]

\* The places of the loop that have no store, in the order of the loop.
PlacesToAdd(table, shown) == SelectSeq(shown, LAMBDA p : table[p] = NoStore)

\* The name and photo the loop gives the stores it creates.
SyncDetails(table, info, shown) ==
    [p \in Places |->
        IF p \in Range(shown) /\ table[p] = NoStore
        THEN NewStoreDetails(p \in PhotoPlaces) ELSE info[p]]

\* ------------------------- discovery (services/store_service.py): values
Reqs == {"r1", "r2"}                   \* calls of find_and_sync_nearby_stores

\* Place ids of the discovery requests: the nearby search answers with the
\* places 1..n in this order; Elsewhere is a place it never returns.
Elsewhere == 0
DPlaces == 0..MaxPlaces
NoPlaceId == -1                        \* landmark_place_id = None
PartnerLevels == 0..2                  \* stores.partner_level

Upto(n) == [i \in 1..n |-> i]

\* results[0] of the gather: an exception or a response that cannot be
\* used, or the places of the response.
DNearbyResults ==
    {[ok |-> FALSE, places |-> <<>>]}
    \cup {[ok |-> TRUE, places |-> Upto(n)] : n \in 0..MaxPlaces}

\* results[1]: a failure, no place, or the one place with its types.
TypeTags == {{"restaurant"}, {"food_store"}, {"point_of_interest"}}
LandmarkPlaces == {Elsewhere, 2}
NoLandmark == [id |-> NoPlaceId, types |-> {}]
DTextResults ==
    {[ok |-> FALSE, place |-> NoLandmark], [ok |-> TRUE, place |-> NoLandmark]}
    \cup {[ok |-> TRUE, place |-> [id |-> q, types |-> tags]] :
             q \in LandmarkPlaces, tags \in TypeTags}

\* The stores that exist before the first request: the places that may have
\* one, each with any partner level.
Curated == {Elsewhere, 2, 4, MaxCards}
StoreTables ==
    {[p \in DPlaces |-> IF p \in Curated THEN c[p] ELSE NoStore] :
        c \in [Curated -> {NoStore} \cup PartnerLevels]}

\* What the text search answers when there is no text_task.
NoTextTask == [ok |-> FALSE, place |-> NoLandmark]

\* A request that has not been made: position and local variables.
NoRequest ==
    [pc |-> "idle", hint |-> FALSE,
     nearby |-> [ok |-> FALSE, places |-> <<>>], text |-> NoTextTask,
     final_places |-> <<>>, landmark_place |-> NoLandmark,
     landmark_place_id |-> NoPlaceId,
     existing |-> <<>>, synced_stores |-> <<>>, new_stores_to_add |-> <<>>,
     result |-> <<>>,
     arrived |-> <<>>,   \* the searches that are done, in the order they ended
     lookups |-> 0,      \* calls of crud.get_stores_by_place_ids
     inserts |-> 0,      \* calls of crud.add_stores
     after |-> {}]       \* the requests that had ended when this one was made

\* The candidates with an odd place id have photos.
HasPhotos(place_id) == place_id % 2 = 1

\* main_photo_url = None
NoPhotoUrl == "NULL"

\* new_store_name and new_photo_url of find_and_sync_nearby_stores: None, or
\* the URL of the photo proxy for the first photo.
NewStore(photos) ==
    [store_name |-> "displayName",
     main_photo_url |-> IF photos THEN "/api/v1/places/photo" ELSE NoPhotoUrl]

\* Name and photo of the stores that exist before the first request: a
\* store of level 0 is as an earlier request created it, a partner store has
\* the name and photo the back office gave it.
InitialDetails(partner_level, photos) ==
    CASE partner_level = NoStore -> NoDetails
      [] partner_level = 0       -> NewStore(photos)
      [] OTHER                   -> CuratedDetails

\* A Store object, as far as the ranking reads it.
StoreOf(place_id, partner_level) ==
    [place_id |-> place_id, partner_level |-> partner_level]

\* ---------------------- discovery (services/store_service.py): operators
\* final_places after results[0] was looked at: a failed nearby search
\* leaves it empty.
NearbyPlaces(results) == IF results[1].ok THEN results[1].places ELSE <<>>

\* Mutant: the gather lets the first exception through (no
\* return_exceptions), so a failed nearby search loses the text answer.
LandmarkPlace_FailFast(hint, results) ==
    IF hint /\ results[1].ok /\ results[2].ok THEN results[2].place
    ELSE NoLandmark

\* landmark_place after results[1] was looked at: None without text_task,
\* after a failed text search, and when the answer has no place.
LandmarkPlace(hint, results) ==
    IF hint /\ results[2].ok THEN results[2].place ELSE NoLandmark

\* The searches a request sends.
Issued(hint) == IF hint THEN {"nearby", "text"} ELSE {"nearby"}

\* Mutant: the gather ends with the first exception of a search.
GatherReturns_FirstException(hint, arrived, results) ==
    \/ Range(arrived) = Issued(hint)
    \/ "nearby" \in Range(arrived) /\ ~results[1].ok
    \/ "text" \in Range(arrived) /\ ~results[2].ok

\* asyncio.gather(*tasks, return_exceptions=True) returns when every search
\* has ended, with its answer or with its exception.
GatherReturns(hint, arrived, results) ==
    Range(arrived) = Issued(hint)

\* Mutant: no place found is reported as an error.
AfterGather_Raises(final_places) ==
    IF final_places = <<>> THEN "failed" ELSE "lookup"

\* `if not final_places: return []`, before the landmark is looked at.
AfterGather(final_places) ==
    IF final_places = <<>> THEN "returned" ELSE "lookup"

\* `landmark_place and ("restaurant" in types or "food_store" in types)`
IsFoodLandmark(landmark_place) ==
    /\ landmark_place # NoLandmark
    /\ \/ "restaurant" \in landmark_place.types
       \/ "food_store" \in landmark_place.types

LandmarkPlaceId(landmark_place) ==
    IF IsFoodLandmark(landmark_place) THEN landmark_place.id ELSE NoPlaceId

\* Mutant: the landmark is put first and its nearby entry is kept.
Promote_KeepsDuplicate(final_places, landmark_place_id) ==
    IF landmark_place_id = NoPlaceId THEN final_places
    ELSE <<landmark_place_id>> \o final_places

\* The nearby entry of the landmark is removed, the landmark inserted at 0.
Promote(final_places, landmark_place_id) ==
    IF landmark_place_id = NoPlaceId THEN final_places
    ELSE <<landmark_place_id>> \o Remove(final_places, landmark_place_id)

\* Mutant: one query for each place id.
BatchLookups_PerPlace(place_ids) == Len(place_ids)

\* crud.get_stores_by_place_ids is called once, with all place ids.
BatchLookups(place_ids) == 1

\* Mutant: the lookup finds no store.
ExistingStores_None(table, final_places) ==
    [p \in DOMAIN table |-> NoStore]

\* existing_stores_map: the stores of the place ids of final_places.
ExistingStores(table, final_places) ==
    [p \in DOMAIN table |-> IF p \in Range(final_places) THEN table[p] ELSE NoStore]

\* Mutant: the loop runs over all of final_places.
Shown_All(final_places) == final_places

\* final_places[:10] of the loop.
Shown(final_places) == FirstCards(final_places)

\* Mutant: the stores the lookup found come first, the new ones after them.
SyncedStores_ExistingFirst(existing, final_places) ==
    LET shown == Shown(final_places)
        order == SelectSeq(shown, LAMBDA p : existing[p] # NoStore)
                 \o SelectSeq(shown, LAMBDA p : existing[p] = NoStore)
    IN  [i \in 1..Len(shown) |->
            StoreOf(order[i], IF existing[order[i]] = NoStore THEN 0
                              ELSE existing[order[i]])]

\* Mutant: every store of the list is built from the candidate.
SyncedStores_FromCandidate(existing, final_places) ==
    [i \in 1..Len(Shown(final_places)) |-> StoreOf(Shown(final_places)[i], 0)]

\* synced_stores: for each of the first ten places the store that exists,
\* or a new Store with partner_level 0.
SyncedStores(existing, final_places) ==
    LET shown == Shown(final_places) IN
    [i \in 1..Len(shown) |->
        StoreOf(shown[i], IF existing[shown[i]] = NoStore THEN 0
                          ELSE existing[shown[i]])]

\* new_stores_to_add: the place ids of the new Store objects.
NewStores(existing, final_places) ==
    SelectSeq(Shown(final_places), LAMBDA p : existing[p] = NoStore)

\* Mutant: a store goes before the stores of its own level.
InsertByLevel_BeforeEqual(sorted, store) ==
    LET k == Cardinality({i \in 1..Len(sorted) :
                             sorted[i].partner_level > store.partner_level})
    IN  SubSeq(sorted, 1, k) \o <<store>> \o SubSeq(sorted, k + 1, Len(sorted))

\* A store enters a list sorted by descending level behind the stores of
\* its own level.
InsertByLevel(sorted, store) ==
    LET k == Cardinality({i \in 1..Len(sorted) :
                             sorted[i].partner_level >= store.partner_level})
    IN  SubSeq(sorted, 1, k) \o <<store>> \o SubSeq(sorted, k + 1, Len(sorted))

RECURSIVE SortedByPartnerLevel(_)
\* sorted(other_stores, key=lambda s: s.partner_level, reverse=True): stable.
SortedByPartnerLevel(other_stores) ==
    IF other_stores = <<>> THEN <<>>
    ELSE InsertByLevel(
            SortedByPartnerLevel(SubSeq(other_stores, 1, Len(other_stores) - 1)),
            other_stores[Len(other_stores)])

\* final_sorted_list: the landmark store, then the others sorted.
FinalSortedList(synced_stores, landmark_place_id) ==
    LET landmark == SelectSeq(synced_stores,
                              LAMBDA st : st.place_id = landmark_place_id)
        others   == SelectSeq(synced_stores,
                              LAMBDA st : st.place_id # landmark_place_id)
    IN  IF landmark_place_id # NoPlaceId /\ landmark # <<>>
        THEN <<landmark[Len(landmark)]>> \o SortedByPartnerLevel(others)
        ELSE SortedByPartnerLevel(others)

\* -------------------------------------------------------------------- Init
Init ==
    /\ users = [u \in Users |->
                  IF u = "u1" THEN [state |-> "normal", lang |-> "en"] ELSE NoUser]
    /\ stores = [p \in Places |-> IF p = "p1" THEN 2 ELSE NoStore]
    /\ details = [p \in Places |-> IF p = "p1" THEN CuratedDetails ELSE NoDetails]
    /\ listLoaded \in BOOLEAN
    /\ pc = [t \in Tasks |-> "idle"]
    /\ left = [t \in Tasks |-> 0]
    /\ ev = [t \in Tasks |-> NoEvent]
    /\ arg = [t \in Tasks |-> NoArg]
    /\ sess = [t \in Tasks |-> [u \in Users |-> NoUser]]
    /\ dirty = [t \in Tasks |-> {}]
    /\ seen = [t \in Tasks |-> NoRow]
    /\ post = [t \in Tasks |-> NoRow]
    /\ reply = [t \in Tasks |-> NoReply]
    /\ cards = [t \in Tasks |-> <<>>]
    /\ disc = [t \in Tasks |-> <<>>]
    /\ before = [t \in Tasks |-> {}]
    /\ req = [r \in Reqs |-> NoRequest]

\* ----------------------------------------------------------------- actions
\* callback: the delivery's events go to a background task, which opens a
\* session of its own (handle_events). The deliveries received earlier are
\* those whose tasks are still running.
Deliver(t, n) ==
    /\ pc[t] = "idle"
    /\ n \in 1..MaxEvents
    /\ pc' = [pc EXCEPT ![t] = "ready"]
    /\ left' = [left EXCEPT ![t] = n]
    /\ before' = [before EXCEPT ![t] = {s \in Tasks \ {t} : pc[s] # "idle"}]
    /\ UNCHANGED <<users, stores, details, listLoaded, ev, arg, sess, dirty, seen, post,
                   reply, cards, disc, req>>

\* The handler of event e calls process_language_text(line_user_id, text, db).
CallPlt(t, e, text) ==
    \E hasOrders \in BOOLEAN :
        LET user == ReadUser(t, e.user)
            r    == process_language_text(user, text, listLoaded, hasOrders)
            new  == [state |-> r.state, lang |-> r.lang]
        IN  /\ arg' = [arg EXCEPT ![t] = text]
            /\ seen' = [seen EXCEPT ![t] = user]
            /\ sess' = [sess EXCEPT ![t][e.user] = new]
            /\ dirty' = [dirty EXCEPT ![t] = Dirty(user, new)]
            /\ reply' = [reply EXCEPT ![t] = r.reply]
            /\ pc' = [pc EXCEPT ![t] = IF r.commit THEN "commit" ELSE "done"]

\* The handler ends here with the reply `out`, having called neither
\* process_language_text nor db.commit().
ReplyNow(t, e, user, out) ==
    /\ arg' = [arg EXCEPT ![t] = NoArg]
    /\ seen' = [seen EXCEPT ![t] = user]
    /\ sess' = [sess EXCEPT ![t][e.user] = user]
    /\ dirty' = [dirty EXCEPT ![t] = {}]
    /\ reply' = [reply EXCEPT ![t] = out]
    /\ pc' = [pc EXCEPT ![t] = "done"]

\* The handler raises: the exception leaves handle_events.
Raise(t, e, user) ==
    /\ arg' = [arg EXCEPT ![t] = NoArg]
    /\ seen' = [seen EXCEPT ![t] = user]
    /\ sess' = [sess EXCEPT ![t][e.user] = user]
    /\ dirty' = [dirty EXCEPT ![t] = {}]
    /\ reply' = [reply EXCEPT ![t] = NoReply]
    /\ pc' = [pc EXCEPT ![t] = "raised"]

\* handle_message
handle_message(t, e) ==
    CallPlt(t, e, e.text)

\* handle_audio_message, up to the speech request.
handle_audio_message(t, e) ==
    LET user == ReadUser(t, e.user) IN
    IF user = NoUser
    THEN ReplyNow(t, e, user, <<"user_not_found">>)
    ELSE IF user.state = "awaiting_language"
    THEN /\ arg' = [arg EXCEPT ![t] = NoArg]
         /\ seen' = [seen EXCEPT ![t] = user]
         /\ sess' = [sess EXCEPT ![t][e.user] = user]
         /\ dirty' = [dirty EXCEPT ![t] = {}]
         /\ reply' = [reply EXCEPT ![t] = NoReply]
         /\ pc' = [pc EXCEPT ![t] = "stt"]
    ELSE CallPlt(t, e, "")

\* handle_sticker_message: `user.state` is read for the log line even when
\* no user was found.
handle_sticker_message(t, e) ==
    LET user == ReadUser(t, e.user) IN
    IF user = NoUser
    THEN Raise(t, e, user)
    ELSE CallPlt(t, e, "")

\* Mutant: the location handler writes a state of its own.
AfterLocation_Idle(user) == [state |-> "idle", lang |-> user.lang]

\* Mutant: the location handler leaves the state as it is.
AfterLocation_Unchanged(user) == user

\* `user.state = 'normal'` of handle_location_message.
AfterLocation(user) == [state |-> "normal", lang |-> user.lang]

\* Mutant: the searches are run in whatever state the user is.
handle_location_message_AnyState(t, e) ==
    LET user == ReadUser(t, e.user) IN
    IF user = NoUser
    THEN ReplyNow(t, e, user, NoReply)
    ELSE LET new == AfterLocation(user) IN
         /\ arg' = [arg EXCEPT ![t] = NoArg]
         /\ seen' = [seen EXCEPT ![t] = user]
         /\ sess' = [sess EXCEPT ![t][e.user] = new]
         /\ dirty' = [dirty EXCEPT ![t] = Dirty(user, new)]
         /\ reply' = [reply EXCEPT ![t] = NoReply]
         /\ pc' = [pc EXCEPT ![t] = "loc_commit"]

\* handle_location_message, up to the commit of state 'normal'. No reply is
\* sent in the branch of a user that was not found.
handle_location_message(t, e) ==
    LET user == ReadUser(t, e.user) IN
    IF user = NoUser
    THEN ReplyNow(t, e, user, NoReply)
    ELSE IF user.state = "awaiting_location"
    THEN LET new == AfterLocation(user) IN
         /\ arg' = [arg EXCEPT ![t] = NoArg]
         /\ seen' = [seen EXCEPT ![t] = user]
         /\ sess' = [sess EXCEPT ![t][e.user] = new]
         /\ dirty' = [dirty EXCEPT ![t] = Dirty(user, new)]
         /\ reply' = [reply EXCEPT ![t] = NoReply]
         /\ pc' = [pc EXCEPT ![t] = "loc_commit"]
    ELSE CallPlt(t, e, "")

\* Mutant: the order button stands for 'change language'.
MenuText_Swapped(data) ==
    CASE data = "action=change_language" -> "change language"
      [] data = "action=order_now"       -> "change language"
      [] data = "action=order_history"   -> "order history"
      [] OTHER                           -> NoArg

\* The text a main-menu postback stands for.
MenuText(data) ==
    CASE data = "action=change_language" -> "change language"
      [] data = "action=order_now"       -> "order now"
      [] data = "action=order_history"   -> "order history"
      [] OTHER                           -> NoArg

\* handle_postback
handle_postback(t, e) ==
    LET user == ReadUser(t, e.user) IN
    IF user = NoUser
    THEN ReplyNow(t, e, user, <<"user_not_found">>)
    ELSE IF MenuText(e.text) # NoArg
    THEN CallPlt(t, e, MenuText(e.text))
    ELSE IF StartsWithShowOrderDetails(e.text)
    THEN IF OrderIdOf(e.text) = NoOrderId
         THEN ReplyNow(t, e, user, <<"generic_error">>)
         ELSE IF ~IsInteger(OrderIdOf(e.text))
         THEN Raise(t, e, user)
         ELSE \E found \in BOOLEAN :
                ReplyNow(t, e, user,
                         IF found THEN <<"order_details">> ELSE <<"generic_error">>)
    ELSE ReplyNow(t, e, user, <<"generic_error">>)

\* handle_follow, up to the commit: the profile's language (or 'en'), then
\* a new User object, or the known user's language set.
handle_follow(t, e) ==
    \E user_language \in {UserLanguage(e.text)} :
        LET user == ReadUser(t, e.user)
            new  == IF user = NoUser
                    THEN [state |-> "normal", lang |-> user_language]
                    ELSE [state |-> user.state, lang |-> user_language]
        IN  /\ arg' = [arg EXCEPT ![t] = NoArg]
            /\ seen' = [seen EXCEPT ![t] = user]
            /\ sess' = [sess EXCEPT ![t][e.user] = new]
            /\ dirty' = [dirty EXCEPT ![t] =
                            IF user = NoUser THEN {} ELSE Dirty(user, new)]
            /\ reply' = [reply EXCEPT ![t] = get_main_menu_messages]
            /\ pc' = [pc EXCEPT ![t] = IF user = NoUser THEN "insert" ELSE "commit"]

\* Mutant: the handlers of a delivery are started without being awaited.
HandlerFinished_Any(position) == position # "idle"

\* `for event in events: await handle_...(event, session)`: the loop is at
\* its start, or the handler of the event before has returned.
HandlerFinished(position) == position \in {"ready", "done"}

\* handle_events: the next event of the delivery goes to its handler, which
\* runs to its first suspension after reading the user.
Begin(t, e) ==
    /\ HandlerFinished(pc[t])
    /\ left[t] > 0
    /\ e \in Events
    /\ left' = [left EXCEPT ![t] = @ - 1]
    /\ ev' = [ev EXCEPT ![t] = e]
    /\ post' = [post EXCEPT ![t] = NoRow]
    /\ cards' = [cards EXCEPT ![t] = <<>>]
    /\ disc' = [disc EXCEPT ![t] = <<>>]
    /\ CASE e.type = "follow"   -> handle_follow(t, e)
         [] e.type = "text"     -> handle_message(t, e)
         [] e.type = "audio"    -> handle_audio_message(t, e)
         [] e.type = "sticker"  -> handle_sticker_message(t, e)
         [] e.type = "location" -> handle_location_message(t, e)
         [] e.type = "postback" -> handle_postback(t, e)
    /\ UNCHANGED <<users, stores, details, listLoaded, before, req>>

\* handle_audio_message in state 'awaiting_language': the answer of the
\* speech service is a failure, no result, or a transcript.
SttOutcomes == {"<error>", "<empty>"} \cup Texts

Transcribe(t, outcome) ==
    /\ pc[t] = "stt"
    /\ outcome \in SttOutcomes
    /\ CASE outcome = "<error>" ->
              ReplyNow(t, ev[t], sess[t][ev[t].user], <<"audio_processing_error">>)
         [] outcome = "<empty>" ->
              ReplyNow(t, ev[t], sess[t][ev[t].user],
                       <<"audio_not_recognized">> \o LanguageList(listLoaded))
         [] OTHER -> CallPlt(t, ev[t], outcome)
    /\ UNCHANGED <<users, stores, details, listLoaded, left, ev, post, cards, disc,
                   before, req>>

\* `await db.commit()` of process_language_text or handle_follow: the
\* changed attributes reach the row, then the reply is sent.
Commit(t) ==
    /\ pc[t] = "commit"
    /\ LET u   == ev[t].user
           row == Flush(users[u], sess[t][u], dirty[t])
       IN  /\ users' = [users EXCEPT ![u] = row]
           /\ post' = [post EXCEPT ![t] = row]
    /\ dirty' = [dirty EXCEPT ![t] = {}]
    /\ pc' = [pc EXCEPT ![t] = "done"]
    /\ UNCHANGED <<stores, details, listLoaded, left, ev, arg, sess, seen, reply, cards, disc,
                   before, req>>

\* `await db.commit()` of handle_location_message: state 'normal' reaches
\* the row before the searches start.
LocationCommit(t) ==
    /\ pc[t] = "loc_commit"
    /\ LET u   == ev[t].user
           row == Flush(users[u], sess[t][u], dirty[t])
       IN  /\ users' = [users EXCEPT ![u] = row]
           /\ post' = [post EXCEPT ![t] = row]
    /\ dirty' = [dirty EXCEPT ![t] = {}]
    /\ pc' = [pc EXCEPT ![t] = "discover"]
    /\ UNCHANGED <<stores, details, listLoaded, left, ev, arg, sess, seen, reply, cards, disc,
                   before, req>>

\* handle_follow for an unknown user: INSERT and commit. line_user_id is
\* unique, so the insert fails when the row has appeared meanwhile.
InsertUser(t) ==
    /\ pc[t] = "insert"
    /\ LET u == ev[t].user IN
       IF users[u] = NoUser
       THEN /\ users' = [users EXCEPT ![u] = sess[t][u]]
            /\ post' = [post EXCEPT ![t] = sess[t][u]]
            /\ pc' = [pc EXCEPT ![t] = "done"]
            /\ reply' = reply
       ELSE /\ UNCHANGED <<users, post>>
            /\ pc' = [pc EXCEPT ![t] = "raised"]
            /\ reply' = [reply EXCEPT ![t] = NoReply]
    /\ UNCHANGED <<stores, details, listLoaded, left, ev, arg, sess, dirty, seen, cards, disc,
                   before, req>>

\* handle_location_message after the commit: the nearby search, the text
\* search when the message carries title and address, the stores of the
\* first ten places, and the reply.
Discover(t, nearby, text) ==
    /\ pc[t] = "discover"
    /\ nearby \in NearbyResults
    /\ text \in (IF ev[t].hint THEN TextResults ELSE {NoTextSearch})
    /\ LET final_places == FinalPlaces(nearby, ev[t].hint, text) IN
       /\ stores' = SyncStores(stores, FirstCards(final_places))
       /\ details' = SyncDetails(stores, details, FirstCards(final_places))
       /\ cards' = [cards EXCEPT ![t] = FirstCards(final_places)]
       /\ reply' = [reply EXCEPT ![t] =
                       IF final_places = <<>> THEN <<"no_stores_found">>
                                              ELSE <<"store_carousel">>]
    /\ disc' = [disc EXCEPT ![t] = Append(@, ev[t].coord)]
    /\ pc' = [pc EXCEPT ![t] = "done"]
    /\ UNCHANGED <<users, listLoaded, left, ev, arg, sess, dirty, seen, post,
                   before, req>>

\* handle_location_message when a commit of the loop fails: each new store
\* is committed on its own, so the stores of the places before the k-th new
\* one stay, and the exception leaves the handler without a reply.
DiscoverFails(t, nearby, text, k) ==
    /\ pc[t] = "discover"
    /\ nearby \in NearbyResults
    /\ text \in (IF ev[t].hint THEN TextResults ELSE {NoTextSearch})
    /\ LET final_places == FinalPlaces(nearby, ev[t].hint, text)
           new == PlacesToAdd(stores, FirstCards(final_places))
       IN  /\ k \in 1..Len(new)
           /\ stores' = SyncStores(stores, SubSeq(new, 1, k - 1))
           /\ details' = SyncDetails(stores, details, SubSeq(new, 1, k - 1))
    /\ disc' = [disc EXCEPT ![t] = Append(@, ev[t].coord)]
    /\ reply' = [reply EXCEPT ![t] = NoReply]
    /\ pc' = [pc EXCEPT ![t] = "raised"]
    /\ UNCHANGED <<users, listLoaded, left, ev, arg, sess, dirty, seen, post,
                   cards, before, req>>

\* The task ends: after the last event, or with the exception.
Finish(t) ==
    /\ \/ pc[t] = "done" /\ left[t] = 0
       \/ pc[t] = "raised"
    /\ pc' = [pc EXCEPT ![t] = "idle"]
    /\ left' = [left EXCEPT ![t] = 0]
    /\ ev' = [ev EXCEPT ![t] = NoEvent]
    /\ arg' = [arg EXCEPT ![t] = NoArg]
    /\ sess' = [sess EXCEPT ![t] = [u \in Users |-> NoUser]]
    /\ dirty' = [dirty EXCEPT ![t] = {}]
    /\ seen' = [seen EXCEPT ![t] = NoRow]
    /\ post' = [post EXCEPT ![t] = NoRow]
    /\ reply' = [reply EXCEPT ![t] = NoReply]
    /\ cards' = [cards EXCEPT ![t] = <<>>]
    /\ disc' = [disc EXCEPT ![t] = <<>>]
    /\ before' = [s \in Tasks |-> IF s = t THEN {} ELSE before[s] \ {t}]
    /\ UNCHANGED <<users, stores, details, listLoaded, req>>

\* One step of task t: its events are drawn from E, the answers of the
\* nearby search from N.
Step(t, E, N) ==
    \/ \E n \in 1..MaxEvents : Deliver(t, n)
    \/ \E e \in E : Begin(t, e)
    \/ \E outcome \in SttOutcomes : Transcribe(t, outcome)
    \/ Commit(t)
    \/ LocationCommit(t)
    \/ InsertUser(t)
    \/ \E nearby \in N, text \in TextResults : Discover(t, nearby, text)
    \/ Finish(t)

\* One delivery at a time: every event, every user, every search result.
Next ==
    \/ Step("t1", Events, NearbyResults)
    \/ \E nearby \in NearbyResults, text \in TextResults, k \in 1..MaxCards :
          DiscoverFails("t1", nearby, text, k)

Spec == Init /\ [][Next]_vars

\* Concurrent deliveries: two background tasks interleave at their awaits.
\* Their events are those of one user, unknown at first, that read and write
\* the state; the nearby search fails, finds nothing, or finds the store
\* that exists.
ConcTexts == {"order now", "change language", "0", "Japanese"}

ConcEvents ==
    {e \in Events :
        /\ e.user = "u2"
        /\ \/ e.type = "follow" /\ e.text \in {"<none>", "ja"}
           \/ e.type = "audio"
           \/ e.type = "text" /\ e.text \in ConcTexts
           \/ e.type = "location" /\ e.coord = "c1" /\ ~e.hint}

ConcNearby == {r \in NearbyResults : r.places \in {<<>>, <<"p1">>}}

InitConc == Init /\ listLoaded

NextConc == \E t \in Tasks : Step(t, ConcEvents, ConcNearby)

SpecConc == InitConc /\ [][NextConc]_vars


\* ------------------------------------------------------ discovery: actions
\* find_and_sync_nearby_stores is called: the nearby request is built, and
\* the text request when the message has title and address; both are sent.
find_and_sync_nearby_stores(r, hint) ==
    /\ req[r].pc = "idle"
    /\ req' = [req EXCEPT ![r] =
                [NoRequest EXCEPT !.pc = "gather", !.hint = hint,
                                  !.after = {s \in Reqs \ {r} :
                                               req[s].pc \in {"returned", "failed"}}]]
    /\ UNCHANGED <<stores, details, botvars>>

\* The nearby search ends, with an answer or an exception.
NearbyAnswer(r, nearby) ==
    /\ req[r].pc = "gather"
    /\ "nearby" \notin Range(req[r].arrived)
    /\ nearby \in DNearbyResults
    /\ req' = [req EXCEPT ![r] =
                [@ EXCEPT !.nearby = nearby, !.arrived = Append(@, "nearby")]]
    /\ UNCHANGED <<stores, details, botvars>>

\* The text search ends, with an answer or an exception.
TextAnswer(r, text) ==
    /\ req[r].pc = "gather"
    /\ req[r].hint
    /\ "text" \notin Range(req[r].arrived)
    /\ text \in DTextResults
    /\ req' = [req EXCEPT ![r] =
                [@ EXCEPT !.text = text, !.arrived = Append(@, "text")]]
    /\ UNCHANGED <<stores, details, botvars>>

\* asyncio.gather returns: both answers are looked at; without a nearby
\* place the function returns [] here, otherwise a food landmark is put
\* first.
Gather(r, nearby, text) ==
    /\ req[r].pc = "gather"
    /\ nearby = req[r].nearby
    /\ text = req[r].text
    /\ GatherReturns(req[r].hint, req[r].arrived, <<nearby, text>>)
    /\ LET results == <<nearby, text>>
           found == NearbyPlaces(results)
           landmark_place == LandmarkPlace(req[r].hint, results)
           landmark_place_id == LandmarkPlaceId(landmark_place)
       IN  req' = [req EXCEPT ![r] =
                [@ EXCEPT !.nearby = nearby,
                          !.text = text,
                          !.pc = AfterGather(found),
                          !.landmark_place = landmark_place,
                          !.final_places =
                              IF found = <<>> THEN <<>>
                              ELSE Promote(found, landmark_place_id),
                          !.landmark_place_id =
                              IF found = <<>> THEN NoPlaceId
                              ELSE landmark_place_id]]
    /\ UNCHANGED <<stores, details, botvars>>

\* crud.get_stores_by_place_ids answers: the loop over final_places[:10]
\* builds synced_stores and new_stores_to_add; without a new store the
\* sorted list is returned.
get_stores_by_place_ids(r) ==
    /\ req[r].pc = "lookup"
    /\ LET existing == ExistingStores(stores, req[r].final_places)
           synced   == SyncedStores(existing, req[r].final_places)
           new      == NewStores(existing, req[r].final_places)
       IN  req' = [req EXCEPT ![r] =
                [@ EXCEPT !.existing = existing,
                          !.synced_stores = synced,
                          !.new_stores_to_add = new,
                          !.lookups = @ + BatchLookups(req[r].final_places),
                          !.pc = IF new = <<>> THEN "returned" ELSE "insert",
                          !.result =
                              IF new = <<>>
                              THEN FinalSortedList(synced, req[r].landmark_place_id)
                              ELSE <<>>]]
    /\ UNCHANGED <<stores, details, botvars>>

\* What the commit of crud.add_stores can meet.
CommitOutcomes == {"ok", "error"}

\* crud.add_stores commits the new stores in one transaction; place_id is
\* unique, so the commit fails when one of them has appeared meanwhile, and
\* it fails when the database does; the exception leaves
\* find_and_sync_nearby_stores.
add_stores(r, commit) ==
    /\ req[r].pc = "insert"
    /\ commit \in CommitOutcomes
    /\ LET new == Range(req[r].new_stores_to_add) IN
       IF commit = "error" \/ \E p \in new : stores[p] # NoStore
       THEN /\ req' = [req EXCEPT ![r] =
                 [@ EXCEPT !.pc = "failed", !.inserts = @ + 1]]
            /\ UNCHANGED <<stores, details>>
       ELSE /\ stores' = [p \in DOMAIN stores |->
                            IF p \in new THEN 0 ELSE stores[p]]
            /\ details' = [p \in DOMAIN details |->
                            IF p \in new THEN NewStore(HasPhotos(p))
                            ELSE details[p]]
            /\ req' = [req EXCEPT ![r] =
                 [@ EXCEPT !.pc = "returned",
                           !.inserts = @ + 1,
                           !.result = FinalSortedList(req[r].synced_stores,
                                                      req[r].landmark_place_id)]]
    /\ UNCHANGED botvars

\* The caller has the list (or the exception); the request is over.
EndRequest(r) ==
    /\ req[r].pc \in {"returned", "failed"}
    /\ req' = [req EXCEPT ![r] = NoRequest]
    /\ UNCHANGED <<stores, details, botvars>>

DStep(r) ==
    \/ \E hint \in BOOLEAN : find_and_sync_nearby_stores(r, hint)
    \/ \E nearby \in DNearbyResults : NearbyAnswer(r, nearby)
    \/ \E text \in DTextResults : TextAnswer(r, text)
    \/ Gather(r, req[r].nearby, req[r].text)
    \/ get_stores_by_place_ids(r)
    \/ \E commit \in CommitOutcomes : add_stores(r, commit)
    \/ EndRequest(r)

\* One discovery request at a time, on a table of curated stores.
InitDisc ==
    /\ users = [u \in Users |-> NoUser]
    /\ stores \in StoreTables
    /\ details = [p \in DPlaces |-> InitialDetails(stores[p], HasPhotos(p))]
    /\ listLoaded = TRUE
    /\ pc = [t \in Tasks |-> "idle"]
    /\ left = [t \in Tasks |-> 0]
    /\ ev = [t \in Tasks |-> NoEvent]
    /\ arg = [t \in Tasks |-> NoArg]
    /\ sess = [t \in Tasks |-> [u \in Users |-> NoUser]]
    /\ dirty = [t \in Tasks |-> {}]
    /\ seen = [t \in Tasks |-> NoRow]
    /\ post = [t \in Tasks |-> NoRow]
    /\ reply = [t \in Tasks |-> NoReply]
    /\ cards = [t \in Tasks |-> <<>>]
    /\ disc = [t \in Tasks |-> <<>>]
    /\ before = [t \in Tasks |-> {}]
    /\ req = [r \in Reqs |-> NoRequest]

NextDisc == DStep("r1")

SpecDisc == InitDisc /\ [][NextDisc]_vars

\* Two discovery requests, each made once, in any interleaving of their
\* awaits: one after the other, or at the same time. The nearby search
\* fails or finds up to two places, the text search fails or finds a
\* restaurant; place 2 may have a partner store.
PairNearby == {n \in DNearbyResults : Len(n.places) <= 2}
PairText ==
    {x \in DTextResults : ~x.ok \/ "restaurant" \in x.place.types}
PairTables ==
    {table \in StoreTables : \A p \in DPlaces : table[p] # NoStore => p = 2 /\ table[p] = 2}

PairStep(r) ==
    \/ \E hint \in BOOLEAN : find_and_sync_nearby_stores(r, hint)
    \/ \E nearby \in PairNearby : NearbyAnswer(r, nearby)
    \/ \E text \in PairText : TextAnswer(r, text)
    \/ Gather(r, req[r].nearby, req[r].text)
    \/ get_stores_by_place_ids(r)
    \/ \E commit \in CommitOutcomes : add_stores(r, commit)

InitPair == InitDisc /\ stores \in PairTables

NextPair == \E r \in Reqs : PairStep(r)

SpecPair == InitPair /\ [][NextPair]_vars

\* ------------------------------------------------------------------ claims
\* The claims below speak of a handler that has finished (pc = "done"): of
\* the user object it read (seen), the text it handed to
\* process_language_text (arg), the row it committed (post), the reply it
\* sent, and the row of the user in the table.
Done(t) == pc[t] = "done"
RowOf(t) == users[ev[t].user]
KnownUser(t) == seen[t] \in UserRows

OrderNowInputs == {"order now", " Order Now "}
ChangeLanguageInputs == {"change language"}
CancelInputs == {"0"}
LanguageInputs == {"english", "Japanese"}
CodeOf(text) == IF text = "english" THEN "en" ELSE "ja"
CommandInputs == OrderNowInputs \cup ChangeLanguageInputs \cup {"order history"}

\* C1: in state Idle ('normal'), the text or postback intent 'order now'
\* sets the state to AwaitingLocation, emits the location-request prompt,
\* and leaves preferredLanguage unchanged.
C1_OrderNowFromIdle ==
    \A t \in Tasks :
        (/\ Done(t)
         /\ ev[t].type \in {"text", "postback"}
         /\ seen[t].state = "normal"
         /\ arg[t] \in OrderNowInputs)
        => /\ post[t].state = "awaiting_location"
           /\ RowOf(t).state = "awaiting_location"
           /\ RowOf(t).lang = seen[t].lang
           /\ reply[t] = <<"ask_location">>

C1_Witness ==
    \E t \in Tasks :
        /\ Done(t)
        /\ ev[t].type = "postback"
        /\ seen[t] = [state |-> "normal", lang |-> "ja"]
        /\ arg[t] = "order now"
        /\ RowOf(t) = [state |-> "awaiting_location", lang |-> "ja"]

\* C2: in state Idle, the intent 'change language' sets the state to
\* AwaitingLanguage and emits the language prompt; preferredLanguage is
\* unchanged by this step.
C2_ChangeLanguageFromIdle ==
    \A t \in Tasks :
        (/\ Done(t)
         /\ ev[t].type \in {"text", "postback"}
         /\ seen[t].state = "normal"
         /\ arg[t] \in ChangeLanguageInputs)
        => /\ post[t].state = "awaiting_language"
           /\ RowOf(t).state = "awaiting_language"
           /\ RowOf(t).lang = seen[t].lang
           /\ reply[t] # <<>>
           /\ reply[t][1] = "ask_language"

C2_Witness ==
    \E t \in Tasks :
        /\ Done(t)
        /\ ev[t].type = "text"
        /\ seen[t] = [state |-> "normal", lang |-> "en"]
        /\ arg[t] = "change language"
        /\ RowOf(t) = [state |-> "awaiting_language", lang |-> "en"]
        /\ reply[t] = <<"ask_language", "LANGUAGE_LIST_STRING">>

\* C3: a location message received in state AwaitingLocation runs the
\* discovery exactly once, for the coordinate of the message, and the state
\* is Idle when the handler ends, whatever the searches return; the state is
\* Idle from the handler's commit on, and no search starts before it.
C3_LocationRunsDiscoveryOnce ==
    \A t \in Tasks :
        (ev[t].type = "location" /\ seen[t].state = "awaiting_location")
        => /\ pc[t] = "loc_commit" => disc[t] = <<>>
           /\ pc[t] = "discover"
                => disc[t] = <<>> /\ RowOf(t).state = "normal"
           /\ Done(t)
                => /\ disc[t] = <<ev[t].coord>>
                   /\ post[t].state = "normal"
                   /\ RowOf(t).state = "normal"
                   /\ reply[t] \in {<<"no_stores_found">>, <<"store_carousel">>}
                   /\ Len(cards[t]) <= MaxCards

C3_Witness ==
    \E t \in Tasks :
        /\ Done(t)
        /\ ev[t].type = "location"
        /\ ev[t].coord = "c2"
        /\ seen[t].state = "awaiting_location"
        /\ disc[t] = <<"c2">>
        /\ reply[t] = <<"no_stores_found">>
        /\ RowOf(t).state = "normal"

\* C4: in state AwaitingLocation, a text other than the cancel token, an
\* audio message and a sticker each produce the location re-prompt and leave
\* the state AwaitingLocation and preferredLanguage unchanged.
C4_AwaitingLocationReprompts ==
    \A t \in Tasks :
        (/\ Done(t)
         /\ ev[t].type \in {"text", "audio", "sticker"}
         /\ seen[t].state = "awaiting_location"
         /\ arg[t] \notin CancelInputs)
        => /\ reply[t] = <<"reprompt_location">>
           /\ RowOf(t) = seen[t]
           /\ post[t] = NoRow

C4_Witness ==
    \E t \in Tasks :
        /\ Done(t)
        /\ ev[t].type = "sticker"
        /\ seen[t].state = "awaiting_location"
        /\ reply[t] = <<"reprompt_location">>
        /\ RowOf(t).state = "awaiting_location"

\* C5: the cancel token '0' received in state AwaitingLocation or
\* AwaitingLanguage makes the state Idle, keeps preferredLanguage, and emits
\* the cancellation acknowledgment.
C5_CancelReturnsToIdle ==
    \A t \in Tasks :
        (/\ Done(t)
         /\ seen[t].state \in {"awaiting_location", "awaiting_language"}
         /\ arg[t] \in CancelInputs)
        => /\ post[t].state = "normal"
           /\ RowOf(t).state = "normal"
           /\ RowOf(t).lang = seen[t].lang
           /\ reply[t] # <<>>
           /\ reply[t][1] = "operation_cancelled"

C5_Witness ==
    \E t \in Tasks :
        /\ Done(t)
        /\ ev[t].type = "text"
        /\ seen[t] = [state |-> "awaiting_language", lang |-> "ja"]
        /\ arg[t] = "0"
        /\ RowOf(t) = [state |-> "normal", lang |-> "ja"]

\* C6: a supported language received in state AwaitingLanguage persists
\* preferredLanguage as its code and makes the state Idle, and the two changes
\* become visible together: until the commit the row is the one the handler
\* read, after it the row has the new language and state Idle.
C6_LanguageSetAtomically ==
    \A t \in Tasks :
        (/\ ev[t].type \in {"text", "audio"}
         /\ seen[t].state = "awaiting_language"
         /\ arg[t] \in LanguageInputs)
        => /\ pc[t] = "commit" => RowOf(t) = seen[t]
           /\ Done(t)
                => /\ RowOf(t) = [state |-> "normal", lang |-> CodeOf(arg[t])]
                   /\ post[t] = RowOf(t)
                   /\ reply[t] = <<"language_set_success">>

C6_Witness ==
    \E t \in Tasks :
        /\ Done(t)
        /\ ev[t].type = "audio"
        /\ seen[t] = [state |-> "awaiting_language", lang |-> "en"]
        /\ arg[t] = "Japanese"
        /\ RowOf(t) = [state |-> "normal", lang |-> "ja"]

NotALanguage(t) == arg[t] \notin LanguageInputs \cup CancelInputs

\* C7 as claimed: in state AwaitingLanguage, an input that is neither a
\* supported language nor the cancel token (a text, a location, a sticker,
\* audio that yields no transcript) is answered with a re-prompt that carries
\* the supported-language list, and state and preferredLanguage are unchanged.
\* (Stated for a bot whose language list was loaded.)
C7_RepromptCarriesLanguageList ==
    \A t \in Tasks :
        (/\ Done(t)
         /\ listLoaded
         /\ ev[t].type \in {"text", "audio", "sticker", "location"}
         /\ seen[t].state = "awaiting_language"
         /\ NotALanguage(t))
        => /\ "LANGUAGE_LIST_STRING" \in Range(reply[t])
           /\ RowOf(t) = seen[t]

\* C7 amended: such an input leaves state and preferredLanguage unchanged and
\* is answered with a re-prompt; the re-prompt is language_not_recognized
\* (audio_not_recognized for audio without a transcript) followed by the
\* language list when one was loaded, except that audio whose processing
\* fails is answered with audio_processing_error alone.
C7_RepromptKeepsState ==
    \A t \in Tasks :
        (/\ Done(t)
         /\ ev[t].type \in {"text", "audio", "sticker", "location"}
         /\ seen[t].state = "awaiting_language"
         /\ NotALanguage(t))
        => /\ RowOf(t) = seen[t]
           /\ post[t] = NoRow
           /\ IF ev[t].type = "audio" /\ arg[t] = NoArg
              THEN reply[t] \in {<<"audio_processing_error">>,
                                 <<"audio_not_recognized">> \o LanguageList(listLoaded)}
              ELSE reply[t] = <<"language_not_recognized">> \o LanguageList(listLoaded)

C7_Witness ==
    \E t \in Tasks :
        /\ Done(t)
        /\ listLoaded
        /\ ev[t].type = "audio"
        /\ seen[t].state = "awaiting_language"
        /\ reply[t] = <<"audio_processing_error">>
        /\ RowOf(t).state = "awaiting_language"

\* C8 as claimed: in any session state, a text that is no command is
\* answered with the default menu, and the state is unchanged.
C8_UnknownCommandShowsMenu ==
    \A t \in Tasks :
        (/\ Done(t)
         /\ KnownUser(t)
         /\ ev[t].type = "text"
         /\ arg[t] \in {"hello", ""})
        => /\ reply[t] = get_main_menu_messages
           /\ RowOf(t) = seen[t]

\* The inputs process_language_text does not act on, state by state.
Unrecognized(t) ==
    CASE seen[t].state = "normal" -> arg[t] \notin CommandInputs
      [] seen[t].state = "awaiting_location" -> arg[t] \notin CancelInputs
      [] seen[t].state = "awaiting_language" -> NotALanguage(t)

\* C8 amended: an input process_language_text does not act on leaves the
\* session state unchanged in every state; it is answered with the default
\* menu in state Idle, with the location re-prompt in AwaitingLocation and
\* with the language re-prompt in AwaitingLanguage.
C8_UnknownCommandKeepsState ==
    \A t \in Tasks :
        (/\ Done(t)
         /\ KnownUser(t)
         /\ arg[t] # NoArg
         /\ Unrecognized(t))
        => /\ RowOf(t) = seen[t]
           /\ post[t] = NoRow
           /\ seen[t].state = "normal"
                => reply[t] = get_main_menu_messages
           /\ seen[t].state = "awaiting_location"
                => reply[t] = <<"reprompt_location">>
           /\ seen[t].state = "awaiting_language"
                => reply[t] = <<"language_not_recognized">> \o LanguageList(listLoaded)

C8_Witness ==
    \E t \in Tasks :
        /\ Done(t)
        /\ ev[t].type = "text"
        /\ arg[t] = "hello"
        /\ seen[t].state = "awaiting_location"
        /\ reply[t] = <<"reprompt_location">>
        /\ RowOf(t).state = "awaiting_location"

\* C9: no handler raises, and every handled event is answered with a reply.
C9_NeverRaisesAlwaysReplies ==
    \A t \in Tasks :
        /\ pc[t] # "raised"
        /\ Done(t) => reply[t] # NoReply

\* A task that has read the user's state and has not yet committed the
\* state it computed from it.
InFlight(t) == pc[t] \in {"commit", "loc_commit", "insert"}

\* C10: for one user, at most one state transition is in flight: two tasks
\* are never both between their read of the user's state and their commit.
C10_AtMostOneInFlight ==
    \A t1, t2 \in Tasks :
        (t1 # t2 /\ InFlight(t1) /\ InFlight(t2)) => ev[t1].user # ev[t2].user

\* Task t applies a transition in this step: its commit changes the row.
Applies(t) ==
    /\ InFlight(t)
    /\ pc'[t] # pc[t]
    /\ users'[ev[t].user] # users[ev[t].user]

\* C11: a state update computed from a stale read never overwrites a newer
\* one: when the row of the user no longer has the state the handler read
\* (another handler has committed since), the handler's commit does not
\* replace the state of the row.
C11_NoStaleOverwrite ==
    [][\A t \in Tasks :
          (/\ Applies(t)
           /\ seen[t] \in UserRows
           /\ users[ev[t].user].state # seen[t].state)
          => users'[ev[t].user].state = users[ev[t].user].state]_vars

\* C12: for one user, transitions are applied in the order their events
\* were received: no task applies a transition while a task whose delivery
\* was received earlier holds a transition for the same user that it has
\* read for and not yet committed.
C12_AppliedInOrderReceived ==
    [][\A t \in Tasks :
          Applies(t)
          => \A s \in before[t] :
                ~(InFlight(s) /\ ev[s].user = ev[t].user)]_vars

\* ------------------------------------------------------ claims: discovery
\* A request that has returned its list; the place ids of the list; the
\* answers of the two searches as the caller of the searches sees them.
Returned(r) == req[r].pc = "returned"
Answered(r) == req[r].pc \notin {"idle", "gather"}
ResultIds(r) == [i \in 1..Len(req[r].result) |-> req[r].result[i].place_id]
FoundNearby(r) == IF req[r].nearby.ok THEN req[r].nearby.places ELSE <<>>
TextCandidate(r) ==
    req[r].hint /\ req[r].text.ok /\ req[r].text.place # NoLandmark
FoodCandidate(r) ==
    /\ TextCandidate(r)
    /\ req[r].text.place.types \cap {"restaurant", "food_store"} # {}
Pos(s, x) == CHOOSE k \in 1..Len(s) : s[k] = x
LevelOf(p) == IF stores[p] = NoStore THEN 0 ELSE stores[p]

\* C13: when the nearby search fails or returns nothing and the text search
\* returns a restaurant or food landmark, the returned list contains the
\* landmark.
C13_LandmarkSurvivesNearbyFailure ==
    \A r \in Reqs :
        (Returned(r) /\ FoundNearby(r) = <<>> /\ FoodCandidate(r))
        => req[r].text.place.id \in Range(ResultIds(r))

\* C14: the two searches fail independently: a failed text search leaves
\* the nearby places as they were answered and no landmark, a failed nearby
\* search leaves no nearby place and the text answer taken as it was
\* answered, and in neither case does the request fail (a request fails in
\* the insert of its new stores only).
C14_SearchesFailIndependently ==
    \A r \in Reqs :
        Answered(r)
        => /\ req[r].pc = "failed" => req[r].inserts > 0
           /\ (req[r].hint /\ ~req[r].text.ok /\ req[r].nearby.ok)
                => /\ req[r].landmark_place = NoLandmark
                   /\ req[r].final_places = req[r].nearby.places
                   /\ Returned(r) =>
                        Range(ResultIds(r)) = Range(FirstCards(req[r].nearby.places))
           /\ (~req[r].nearby.ok /\ req[r].hint /\ req[r].text.ok)
                => /\ req[r].landmark_place = req[r].text.place
                   /\ Range(req[r].final_places) \subseteq {req[r].text.place.id}

C14_Witness ==
    \E r \in Reqs :
        /\ Returned(r)
        /\ ~req[r].nearby.ok
        /\ req[r].hint /\ req[r].text.ok
        /\ req[r].landmark_place = [id |-> Elsewhere, types |-> {"restaurant"}]

\* C15: a landmark whose types include "restaurant" is the first store of
\* the returned list, whatever the partner levels.
C15_RestaurantLandmarkFirst ==
    \A r \in Reqs :
        (/\ Returned(r)
         /\ TextCandidate(r)
         /\ "restaurant" \in req[r].text.place.types)
        => /\ req[r].result # <<>>
           /\ req[r].result[1].place_id = req[r].text.place.id

\* C16: in the returned list the stores other than the landmark are in
\* descending order of partner level, and stores of one level are in the
\* order the nearby search answered them in.
C16_StableDescendingOrder ==
    \A r \in Reqs :
        Returned(r)
        => \A i, j \in 1..Len(req[r].result) :
              LET a == req[r].result[i]
                  b == req[r].result[j]
              IN  (/\ i < j
                   /\ a.place_id # req[r].landmark_place_id
                   /\ b.place_id # req[r].landmark_place_id)
                  => /\ a.partner_level >= b.partner_level
                     /\ a.partner_level = b.partner_level
                          => Pos(req[r].nearby.places, a.place_id)
                               < Pos(req[r].nearby.places, b.place_id)

\* Levels [0,2,0,1] of the places 1,2,3,4 and no landmark: 2,4,1,3.
C16_Witness ==
    \E r \in Reqs :
        /\ Returned(r)
        /\ req[r].nearby.places = <<1, 2, 3, 4>>
        /\ req[r].landmark_place_id = NoPlaceId
        /\ req[r].result = <<StoreOf(2, 2), StoreOf(4, 1), StoreOf(1, 0), StoreOf(3, 0)>>

\* C17: with more than ten merged candidates the list is cut after it was
\* ordered, so no candidate that was dropped has a higher partner level than
\* a returned store other than the landmark.
C17_TruncatesAfterOrdering ==
    \A r \in Reqs :
        (Returned(r) /\ Len(req[r].final_places) > MaxCards)
        => \A p \in Range(req[r].final_places) \ Range(ResultIds(r)) :
              \A i \in 1..Len(req[r].result) :
                 req[r].result[i].place_id # req[r].landmark_place_id
                 => LevelOf(p) <= req[r].result[i].partner_level

\* C18: the returned list never has more than ten stores, however many
\* places the searches answer.
C18_AtMostTenStores ==
    \A r \in Reqs :
        /\ Len(req[r].synced_stores) <= MaxCards
        /\ Len(req[r].result) <= MaxCards

C18_Witness ==
    \E r \in Reqs :
        /\ Returned(r)
        /\ Len(req[r].nearby.places) = MaxCards + 2
        /\ req[r].landmark_place_id = Elsewhere
        /\ Len(req[r].final_places) = MaxCards + 3
        /\ Len(req[r].result) = MaxCards

\* C19: a food landmark replaces the nearby entry of its place: the merged
\* candidates and the returned list never hold a place twice, and a landmark
\* that the nearby search answered too is returned once, first.
C19_NoDuplicateRecords ==
    \A r \in Reqs :
        /\ NoDup(req[r].final_places)
        /\ NoDup(ResultIds(r))
        /\ (/\ Returned(r)
            /\ FoodCandidate(r)
            /\ req[r].text.place.id \in Range(FoundNearby(r)))
           => /\ req[r].result[1].place_id = req[r].text.place.id
              /\ Cardinality({i \in 1..Len(req[r].result) :
                    req[r].result[i].place_id = req[r].text.place.id}) = 1

C19_Witness ==
    \E r \in Reqs :
        /\ Returned(r)
        /\ req[r].text.place = [id |-> 2, types |-> {"food_store"}]
        /\ req[r].nearby.places = <<1, 2, 3>>
        /\ ResultIds(r) = <<2, 1, 3>>

\* C20: when both searches return nothing (empty or failed), the request
\* returns the empty list, not an error, and adds no store.
C20_NothingFoundIsNoError ==
    \A r \in Reqs :
        (Answered(r) /\ FoundNearby(r) = <<>> /\ ~TextCandidate(r))
        => /\ Returned(r)
           /\ req[r].result = <<>>
           /\ req[r].new_stores_to_add = <<>>

C20_Witness ==
    \E r \in Reqs :
        /\ Returned(r)
        /\ ~req[r].nearby.ok
        /\ req[r].hint /\ ~req[r].text.ok
        /\ req[r].result = <<>>

\* C21: a discovery call leaves every store that exists as it is
\* (partner_level, store_name, main_photo_url), so that all it writes to the
\* table are stores of place ids that had none, and the store it returns for
\* a place id has the level of the table.
C21_ExistingStoresUntouched ==
    /\ [](\A r \in Reqs :
            Returned(r) =>
                \A i \in 1..Len(req[r].result) :
                    /\ stores[req[r].result[i].place_id] # NoStore
                    /\ req[r].result[i].partner_level
                           = stores[req[r].result[i].place_id])
    /\ [][\A p \in DOMAIN stores :
            stores[p] # NoStore
            => stores'[p] = stores[p] /\ details'[p] = details[p]]_vars

\* A call that has created a store returns a partner store whose candidate
\* has a name and a photo of its own.
C21_Witness ==
    \E r \in Reqs :
        /\ Returned(r)
        /\ req[r].inserts = 1
        /\ \E i \in 1..Len(req[r].result) :
              /\ req[r].result[i].place_id = 2
              /\ req[r].result[i].partner_level = 2
        /\ details[2] = CuratedDetails
        /\ details[1] = NewStore(TRUE)

\* A request made after request s had returned, with the title and address
\* and the answers of the searches that s had, and past its lookup.
RunsAgain(r, s) ==
    /\ r # s
    /\ s \in req[r].after
    /\ Returned(s)
    /\ req[r].pc \in {"insert", "returned", "failed"}
    /\ req[r].hint = req[s].hint
    /\ req[r].nearby = req[s].nearby
    /\ req[r].text = req[s].text

\* C22: a request that runs again what an earlier request ran finds no store
\* to create, calls no insert and returns the list the earlier one returned;
\* and an insert that succeeds creates stores only for place ids that had
\* none, so that no place id ever has two stores.
C22_SecondRunCreatesNothing ==
    /\ [](\A r, s \in Reqs :
            RunsAgain(r, s)
            => /\ req[r].new_stores_to_add = <<>>
               /\ req[r].inserts = 0
               /\ Returned(r)
               /\ req[r].result = req[s].result)
    /\ [][\A r \in Reqs :
            (req[r].pc = "insert" /\ req'[r].pc = "returned")
            => \A p \in Range(req[r].new_stores_to_add) :
                  stores[p] = NoStore /\ stores'[p] # NoStore]_vars

C22_Witness ==
    /\ RunsAgain("r2", "r1")
    /\ req["r1"].nearby.places = <<1, 2>>
    /\ req["r1"].inserts = 1
    /\ req["r2"].inserts = 0
    /\ Len(req["r2"].result) = 2
    /\ stores[1] = 0

\* C23: the insert of a request does not fail because a concurrent request
\* has created one of its stores meanwhile: it fails only when the commit
\* itself fails.
C23_ConcurrentInsertIsSafe ==
    [][\A r \in Reqs :
        (req[r].pc = "insert" /\ req'[r].pc = "failed")
        => \A p \in Range(req[r].new_stores_to_add) : stores[p] = NoStore]_vars

\* A call that has ended, with its list or with an exception.
Ended(r) == req[r].pc \in {"returned", "failed"}

\* C24 (as stated): a call that has ended has made exactly one batch lookup
\* and at most one batch insert.
C24_ExactlyOneLookup ==
    \A r \in Reqs :
        Ended(r) => req[r].lookups = 1 /\ req[r].inserts <= 1

\* C24 (amended): a call makes at most one batch lookup and at most one
\* batch insert, however many candidates there are: one lookup when the
\* nearby search has found a place and none when it has not, one insert when
\* a shown place has no store and none otherwise.
C24_AtMostOneLookupOneInsert ==
    \A r \in Reqs :
        /\ req[r].lookups <= 1 /\ req[r].inserts <= 1
        /\ Ended(r)
            => /\ req[r].lookups = (IF FoundNearby(r) = <<>> THEN 0 ELSE 1)
               /\ req[r].inserts = (IF req[r].new_stores_to_add = <<>> THEN 0 ELSE 1)

C24_Witness ==
    \E r \in Reqs :
        /\ Returned(r)
        /\ Len(req[r].final_places) = MaxPlaces + 1
        /\ Len(req[r].new_stores_to_add) > 1
        /\ req[r].lookups = 1
        /\ req[r].inserts = 1

\* C25: a store a discovery call creates has partner_level 0, and the
\* placeholder image as its photo when the candidate has no photos.
C25_NewStoreHasPlaceholder ==
    [][\A p \in DOMAIN stores :
        (stores[p] = NoStore /\ stores'[p] # NoStore)
        => /\ stores'[p] = 0
           /\ ~HasPhotos(p) => details'[p].main_photo_url = PlaceholderUrl]_vars

\* C26: a discovery that fails in the insert of its new stores leaves none
\* of them in the table and gives no list; one that does not fail leaves all
\* of them.
C26_InsertFailsAsAWhole ==
    [][\A t \in Tasks :
        pc[t] = "discover"
        => /\ pc'[t] = "raised" => stores' = stores /\ cards'[t] = <<>>
           /\ pc'[t] = "done"
                => \A p \in Range(cards'[t]) : stores'[p] # NoStore]_vars

\* C27: when a commit of the discovery fails, the state of the user is
\* still AwaitingLocation.
C27_FailedDiscoveryKeepsState ==
    \A t \in Tasks :
        (pc[t] = "raised" /\ ev[t].type = "location"
            /\ seen[t] \in UserRows /\ seen[t].state = "awaiting_location")
        => RowOf(t).state = "awaiting_location"

\* A location message of a user whose state is not AwaitingLocation.
LocationElsewhere(t) ==
    /\ ev[t].type = "location"
    /\ seen[t] \in UserRows
    /\ seen[t].state \in {"normal", "awaiting_language"}

\* C28: a location message received in state Idle or AwaitingLanguage starts
\* no search, creates no store, commits nothing and leaves the state as it
\* was.
C28_LocationOnlyWhenAwaited ==
    /\ [](\A t \in Tasks :
            LocationElsewhere(t)
            => /\ pc[t] = "done"
               /\ disc[t] = <<>> /\ cards[t] = <<>>
               /\ post[t] = NoRow
               /\ RowOf(t) = seen[t])
    /\ [][\A t \in Tasks :
            LocationElsewhere(t)' => stores' = stores /\ users' = users]_vars

C28_Witness ==
    \E t \in Tasks :
        /\ LocationElsewhere(t)
        /\ Done(t)
        /\ ev[t].hint
        /\ seen[t].state = "awaiting_language"
        /\ RowOf(t).state = "awaiting_language"
        /\ disc[t] = <<>>

\* C29: both searches are in flight at once and end in either order; the
\* answers are looked at only when every search that was sent has ended,
\* and the failure of the one that ended first leaves the answer of the
\* other as it was given.
C29_GatherWaitsForBoth ==
    \A r \in Reqs :
        /\ req[r].pc = "gather" => Range(req[r].arrived) \subseteq Issued(req[r].hint)
        /\ Answered(r)
            => /\ Range(req[r].arrived) = Issued(req[r].hint)
               /\ (req[r].hint /\ req[r].arrived[1] = "nearby" /\ ~req[r].nearby.ok)
                    => req[r].landmark_place
                          = (IF req[r].text.ok THEN req[r].text.place ELSE NoLandmark)
               /\ (req[r].hint /\ req[r].arrived[1] = "text" /\ ~req[r].text.ok)
                    => /\ req[r].final_places = FoundNearby(r)
                       /\ Returned(r) =>
                            Range(ResultIds(r)) = Range(FirstCards(FoundNearby(r)))

C29_Witness ==
    \E r \in Reqs :
        /\ Returned(r)
        /\ req[r].arrived = <<"text", "nearby">>
        /\ ~req[r].text.ok
        /\ req[r].nearby.places = <<1, 2, 3>>
        /\ Len(req[r].result) = 3

SyncedIds(r) ==
    [i \in 1..Len(req[r].synced_stores) |-> req[r].synced_stores[i].place_id]

\* C31: the stores resolved for the candidates (synced_stores, before the
\* sort) are those of the first ten candidates, in the order of the
\* candidates: the store of a candidate is behind the stores of the
\* candidates before it.
C31_ResolvedInCandidateOrder ==
    \A r \in Reqs :
        req[r].lookups = 1 => SyncedIds(r) = FirstCards(req[r].final_places)

\* Stores found and stores created alternate in the resolved list, and the
\* sort has moved a partner store forward in the list returned.
C31_Witness ==
    \E r \in Reqs :
        /\ Returned(r)
        /\ SyncedIds(r) = <<1, 2, 3, 4, 5>>
        /\ req[r].new_stores_to_add = <<1, 3, 5>>
        /\ ResultIds(r) = <<4, 1, 2, 3, 5>>

\* C32: the state of every user row, and of every user object a handler
\* is about to commit, is 'normal', 'awaiting_location' or
\* 'awaiting_language'.
C32_StateIsOneOfThree ==
    /\ \A u \in Users : users[u] # NoUser => users[u].state \in UserStates
    /\ \A t \in Tasks, u \in Users :
            sess[t][u] # NoUser => sess[t][u].state \in UserStates

\* Every value has been written: the user who was inserted as Idle by the
\* follow event waits for a location, the other for a language.
C32_Witness ==
    /\ users["u2"] # NoUser
    /\ users["u2"].state = "awaiting_location"
    /\ users["u1"].state = "awaiting_language"
    /\ \E t \in Tasks : Done(t) /\ post[t] \in UserRows

\* C33: the text '0' of a user in state Idle is answered with the main menu
\* alone, nothing is committed and the user's row stays as it was.
C33_CancelInIdleIsNoCommand ==
    \A t \in Tasks :
        (Done(t) /\ arg[t] \in CancelInputs
            /\ seen[t] \in UserRows /\ seen[t].state = "normal")
        => /\ reply[t] = get_main_menu_messages
           /\ post[t] = NoRow
           /\ RowOf(t) = seen[t]

C33_Witness ==
    \E t \in Tasks :
        /\ Done(t)
        /\ ev[t].type = "text"
        /\ arg[t] = "0"
        /\ seen[t] = [state |-> "normal", lang |-> "ja"]
        /\ reply[t] = get_main_menu_messages
        /\ RowOf(t).state = "normal"

\* The text command of each button of the main menu.
CommandOf(data) ==
    CASE data = "action=order_now"       -> "order now"
      [] data = "action=change_language" -> "change language"
      [] data = "action=order_history"   -> "order history"

MenuPostback(t) ==
    /\ ev[t].type = "postback"
    /\ ev[t].text \in {"action=order_now", "action=change_language",
                       "action=order_history"}
    /\ seen[t] \in UserRows

\* C34: a main-menu postback is answered, and leaves the user, as the text
\* command of its button does for a user in the same state; in state
\* AwaitingLocation it gets the location re-prompt and in state
\* AwaitingLanguage the language re-prompt, and the state stays.
C34_PostbackActsAsTextCommand ==
    \A t \in Tasks :
        (Done(t) /\ MenuPostback(t))
        => /\ \E hasOrders \in BOOLEAN :
                LET r == process_language_text(seen[t], CommandOf(ev[t].text),
                                               listLoaded, hasOrders)
                IN  /\ reply[t] = r.reply
                    /\ RowOf(t) = [state |-> r.state, lang |-> r.lang]
                    /\ (post[t] # NoRow) = r.commit
           /\ seen[t].state = "awaiting_location"
                => reply[t] = <<"reprompt_location">> /\ RowOf(t) = seen[t]
           /\ seen[t].state = "awaiting_language"
                => /\ reply[t] = <<"language_not_recognized">> \o LanguageList(listLoaded)
                   /\ RowOf(t) = seen[t]

C34_Witness ==
    \E t \in Tasks :
        /\ Done(t)
        /\ MenuPostback(t)
        /\ ev[t].text = "action=order_now"
        /\ seen[t].state = "normal"
        /\ RowOf(t).state = "awaiting_location"
        /\ reply[t] = <<"ask_location">>

\* The event of task t may set the language: a follow event, or a language
\* of the lookup table given in state AwaitingLanguage.
MaySetLanguage(t) ==
    \/ ev[t].type = "follow"
    \/ /\ seen[t] \in UserRows
       /\ seen[t].state = "awaiting_language"
       /\ language_lookup_dict(Normalize(arg[t])) # NoLang

\* C35: the language of a user's row changes only in the handler of a
\* follow event or of a recognized language given in state AwaitingLanguage;
\* after any other handler it is the language the handler read.
C35_LanguageChangesOnlyByChoice ==
    /\ [](\A t \in Tasks :
            (Done(t) /\ seen[t] \in UserRows /\ ~MaySetLanguage(t))
            => RowOf(t).lang = seen[t].lang)
    /\ [][\A u \in Users :
            (users[u] # NoUser /\ users'[u].lang # users[u].lang)
            => \E t \in Tasks : ev[t].user = u /\ MaySetLanguage(t)]_vars

C35_Witness ==
    \E t \in Tasks :
        /\ Done(t)
        /\ arg[t] = "0"
        /\ seen[t] = [state |-> "awaiting_language", lang |-> "ja"]
        /\ RowOf(t) = [state |-> "normal", lang |-> "ja"]

\* C36: after the follow event of a user that has a row, the row has the
\* language of the profile and state Idle, whatever the state was.
C36_RefollowReturnsToIdle ==
    \A t \in Tasks :
        (Done(t) /\ ev[t].type = "follow" /\ seen[t] \in UserRows)
        => /\ RowOf(t).lang = UserLanguage(ev[t].text)
           /\ RowOf(t).state = "normal"

\* C37: the handler of the next event of a delivery starts only when the
\* loop is at its start or the handler before it has returned, and reads
\* the user's row as the handlers before it have left it: when the handler
\* before it committed a row of the same user, that row.
C37_EventsHandledInSequence ==
    [][\A t \in Tasks :
        (pc[t] # "idle" /\ pc'[t] # "idle" /\ left'[t] = left[t] - 1)
        => /\ pc[t] \in {"ready", "done"}
           /\ seen'[t] = users[ev'[t].user]
           /\ (post[t] # NoRow /\ ev'[t].user = ev[t].user)
                => seen'[t] = post[t]]_vars

\* The second handler of a delivery has returned: the session holds the
\* users of both events.
C37_Witness ==
    \E t \in Tasks :
        /\ Done(t)
        /\ left[t] = 0
        /\ ev[t].user = "u2"
        /\ ev[t].type = "text"
        /\ sess[t]["u1"] # NoUser
        /\ sess[t]["u2"] # NoUser
        /\ seen[t] \in UserRows

\* C38: a text, audio, location or postback event of a user without a row
\* is answered with user_not_found, and no row is created, no search run
\* and no store shown.
C38_UnknownUserIsToldSo ==
    \A t \in Tasks :
        (Done(t) /\ ev[t].type \in {"text", "audio", "location", "postback"}
            /\ seen[t] = NoUser)
        => /\ reply[t] = <<"user_not_found">>
           /\ RowOf(t) = NoUser
           /\ disc[t] = <<>> /\ cards[t] = <<>>

====
